---- MODULE Spec2Model ----
(***************************************************************************)
(* csv2sql-import (src/index.ts): a CSV file is read record by record      *)
(* (parseCSV / handleRow), the column types are inferred from the first    *)
(* record (parseColumns / parseSQLDataType), and a CREATE TABLE block plus *)
(* batched INSERT statements are generated (generateSQLStatements) and     *)
(* written to the output file (main).                                      *)
(*                                                                         *)
(* Text is modelled as a sequence of one-character strings, so that        *)
(* Number(string), String(cell) and the quoting of a cell are computed     *)
(* character by character.  Generated SQL is a sequence of tokens: the     *)
(* fixed pieces of the templates are single tokens, cell text is one       *)
(* token per character.                                                    *)
(***************************************************************************)
EXTENDS Integers, Sequences, FiniteSets, TLC

VARIABLES
    engine,      \* engineType / outputEngineType
    batchSize,   \* batchSize parameter of main and generateSQLStatements
    stream,      \* the piped read stream: "flowing", "ended" or "errored"
    delivered,   \* the records the 'data' event has delivered so far, in order
    rows,        \* const rows: Row[]             (index.ts:28)
    columns,     \* let columns: ColumnType[]     (index.ts:29)
    promise,     \* the promise parseCSV returns: "pending", "resolved", "rejected"
    mpc,         \* where main is (index.ts:142-152)
    gpc,         \* where generateSQLStatements is (index.ts:95-140)
    rowsClone,   \* const rowsClone = [...rows]   (index.ts:127)
    statements,  \* const statements: string[]    (index.ts:128), with each batch
    result,      \* the string generateSQLStatements returns
    written,     \* the contents fs.writeFileSync has put in the output file
    val,         \* the value handed to parseSQLDataType
    inferred     \* what parseSQLDataType returned for val

vars == <<engine, batchSize, stream, delivered, rows, columns, promise, mpc, gpc,
          rowsClone, statements, result, written, val, inferred>>

ingestVars == <<stream, delivered, rows, columns, promise>>
genVars == <<gpc, rowsClone, statements, result>>
inferVars == <<val, inferred>>

----------------------------------------------------------------------------
(* Bounds of the model *)

MaxRecords == 3      \* 'data' events per run of the pipeline
MaxRows == 3         \* rows handed to generateSQLStatements directly
MaxBatch == 3        \* largest small batch size tried
MaxStrLen == 3       \* length of the generated strings given to parseSQLDataType
MaxNum == 25         \* numbers are held in tenths: -2.5 .. 2.5

(* Program constants (index.ts:7-10) *)
ENGINE == "postgresql"
DATABASE_NAME == "test"
TABLE_NAME == "medium_users"
INSERT_STATEMENT_BATCH_SIZE == 1000

EngineType == {"mysql", "postgresql"}

----------------------------------------------------------------------------
(* Cell values: RowCell = string | number | boolean (index.ts:23).  A      *)
(* number is held in tenths, which is enough to tell whether it has a      *)
(* fractional part.                                                        *)

StrV(s) == [t |-> "string", s |-> s, n |-> 0, b |-> FALSE]
NumV(n) == [t |-> "number", s |-> <<>>, n |-> n, b |-> FALSE]
BoolV(b) == [t |-> "boolean", s |-> <<>>, n |-> 0, b |-> b]

DigitChars == <<"0", "1", "2", "3", "4", "5", "6", "7", "8", "9">>
IsDigit(c) == \E i \in 1..10 : DigitChars[i] = c
IsWhiteSpace(c) == c \in {" ", "\t", "\n", "\r"}

AllDigits(s) == \A i \in 1..Len(s) : IsDigit(s[i])
AllZeros(s) == \A i \in 1..Len(s) : s[i] = "0"

RECURSIVE TrimStart(_)
TrimStart(s) ==
    IF s # <<>> /\ IsWhiteSpace(Head(s)) THEN TrimStart(Tail(s)) ELSE s

RECURSIVE TrimEnd(_)
TrimEnd(s) ==
    IF s # <<>> /\ IsWhiteSpace(s[Len(s)])
    THEN TrimEnd(SubSeq(s, 1, Len(s) - 1))
    ELSE s

(* The position of the first "." of s, or 0 *)
DotAt(s) ==
    IF \E i \in 1..Len(s) : s[i] = "."
    THEN CHOOSE i \in 1..Len(s) : s[i] = "." /\ \A j \in 1..(i - 1) : s[j] # "."
    ELSE 0

(* Number(value) for a string value (ECMAScript StringToNumber), as far as  *)
(* the code looks at it: whether the result is NaN, and whether it has a    *)
(* fractional part.  White space is trimmed; the empty string is 0; then    *)
(* an optional sign and digits[.digits] or .digits.  Exponents, Infinity    *)
(* and 0x/0o/0b literals need characters the model's strings do not hold.   *)
StringToNumber(s) ==
    LET t == TrimEnd(TrimStart(s))
        u == IF t # <<>> /\ Head(t) \in {"-", "+"} THEN Tail(t) ELSE t
        d == DotAt(u)
        ip == IF d = 0 THEN u ELSE SubSeq(u, 1, d - 1)
        fp == IF d = 0 THEN <<>> ELSE SubSeq(u, d + 1, Len(u))
        ok == AllDigits(ip) /\ AllDigits(fp) /\ Len(ip) + Len(fp) >= 1
    IN  IF t = <<>> THEN [nan |-> FALSE, whole |-> TRUE]
        ELSE IF ok THEN [nan |-> FALSE, whole |-> AllZeros(fp)]
        ELSE [nan |-> TRUE, whole |-> FALSE]

(* value % 1 === 0 for a number value *)
NumberIsWhole(v) == v.n % 10 = 0

----------------------------------------------------------------------------
(* Type inference (index.ts:31-72) *)

parseSQLDataTypePostgreSQL(value) ==
    IF value.t = "number"
    THEN (IF NumberIsWhole(value) THEN "INT" ELSE "DOUBLE")
    ELSE IF value.t = "boolean"
    THEN "BOOLEAN"
    ELSE IF value.t = "string" /\ ~StringToNumber(value.s).nan
    THEN (IF StringToNumber(value.s).whole THEN "INT" ELSE "DOUBLE")
    ELSE "TEXT"

parseSQLDataTypeMySQLSameAsPostgreSQL(value) == parseSQLDataTypePostgreSQL(value)

parseSQLDataTypeMySQL(value) ==
    IF value.t = "number"
    THEN (IF NumberIsWhole(value) THEN "INT" ELSE "DOUBLE")
    ELSE IF value.t = "boolean"
    THEN "BIT"
    ELSE IF value.t = "string" /\ ~StringToNumber(value.s).nan
    THEN (IF StringToNumber(value.s).whole THEN "INT" ELSE "DOUBLE")
    ELSE "TEXT"

parseSQLDataType(value, engineType) ==
    IF engineType = "postgresql" THEN parseSQLDataTypePostgreSQL(value)
    ELSE IF engineType = "mysql" THEN parseSQLDataTypeMySQL(value)
    ELSE "undefined"

(* A record of the CSV parser is an object: here the sequence of its        *)
(* [k, v] properties in Object.keys order, with distinct keys.              *)
ObjectKeys(row) == [i \in 1..Len(row) |-> row[i].k]
Get(row, key) == (CHOOSE p \in {row[i] : i \in 1..Len(row)} : p.k = key).v

parseColumns(row, engineType) ==
    [i \in 1..Len(row) |->
        [column |-> ObjectKeys(row)[i],
         dataType |-> parseSQLDataType(Get(row, ObjectKeys(row)[i]), engineType),
         parameters |-> "NULL"]]

(* Object.keys(row).map(column => row[column])  (index.ts:79) *)
RowOf(row) == [i \in 1..Len(row) |-> Get(row, ObjectKeys(row)[i])]

----------------------------------------------------------------------------
(* Text helpers *)

RECURSIVE Join(_, _)
(* Array.prototype.join: the texts of ts with sep between them *)
Join(ts, sep) ==
    IF ts = <<>> THEN <<>>
    ELSE IF Len(ts) = 1 THEN ts[1]
    ELSE ts[1] \o sep \o Join(Tail(ts), sep)

RECURSIVE NatToChars(_)
NatToChars(n) ==
    IF n < 10 THEN <<DigitChars[n + 1]>>
    ELSE NatToChars(n \div 10) \o <<DigitChars[(n % 10) + 1]>>

Abs(n) == IF n < 0 THEN 0 - n ELSE n

(* String(cell), as a template literal and Array.prototype.toString apply it *)
CellToString(cell) ==
    IF cell.t = "string" THEN cell.s
    ELSE IF cell.t = "boolean"
    THEN (IF cell.b THEN <<"t", "r", "u", "e">> ELSE <<"f", "a", "l", "s", "e">>)
    ELSE (IF cell.n < 0 THEN <<"-">> ELSE <<>>)
         \o NatToChars(Abs(cell.n) \div 10)
         \o (IF Abs(cell.n) % 10 = 0 THEN <<>>
             ELSE <<".", DigitChars[(Abs(cell.n) % 10) + 1]>>)

----------------------------------------------------------------------------
(* Statement generation (index.ts:95-140) *)

(* The back quote of the MySQL templates (the character cannot stand in a   *)
(* string of this module, so the token is spelled out)                      *)
BackQuote == "<backquote>"

generateColumnStatement(column, engineType) ==
    LET tail == <<" ", column.dataType>>
                \o (IF column.parameters # "" THEN <<" ", column.parameters>> ELSE <<>>)
    IN  IF engineType = "postgresql" THEN <<"\"", column.column, "\"">> \o tail
        ELSE IF engineType = "mysql" THEN <<BackQuote, column.column, BackQuote>> \o tail
        ELSE <<column.column>> \o tail

(* The cell callback of row.map (index.ts:107) *)
QuoteByCellType(cols, cell, index) ==
    IF cell.t = "string"
    THEN <<"'">> \o CellToString(cell) \o <<"'">>
    ELSE CellToString(cell)

RenderCell(cols, cell, index) ==
    IF cols[index].dataType = "TEXT"
    THEN <<"'">> \o CellToString(cell) \o <<"'">>
    ELSE CellToString(cell)

(* columns[index] is undefined for a cell beyond the last column, and      *)
(* reading .dataType of it throws a TypeError                              *)
RowThrows(cols, row) == Len(row) > Len(cols)

generateInsertPartialStatementRow(cols, row) ==
    <<"(">> \o Join([i \in 1..Len(row) |-> RenderCell(cols, row[i], i)], <<",">>) \o <<")">>

generateCreateStatement(cols, engineType) ==
    IF engineType = "postgresql"
    THEN <<"SELECT 'CREATE DATABASE ", DATABASE_NAME,
           "' WHERE NOT EXISTS (SELECT FROM pg_database WHERE datname = '",
           DATABASE_NAME, "')\\gexec\n\\c \"", DATABASE_NAME,
           "\";\nCREATE TABLE IF NOT EXISTS \"", TABLE_NAME, "\" (">>
         \o Join([i \in 1..Len(cols) |-> generateColumnStatement(cols[i], "postgresql")],
                 <<",\n">>)
         \o <<");">>
    ELSE IF engineType = "mysql"
    THEN <<"CREATE DATABASE IF NOT EXISTS ", BackQuote, DATABASE_NAME, BackQuote,
           ";\nUSE ", BackQuote, DATABASE_NAME, BackQuote,
           ";\nCREATE TABLE IF NOT EXISTS ", BackQuote, TABLE_NAME, BackQuote, " (\n  ">>
         \o Join([i \in 1..Len(cols) |-> generateColumnStatement(cols[i], "mysql")],
                 <<",\n  ">>)
         \o <<"\n);">>
    ELSE <<"undefined">>

(* INSERT_STATEMENT (index.ts:131-132) for one batch *)
InsertStatement(cols, rowsBatch) ==
    <<"INSERT INTO ", TABLE_NAME, " VALUES\n  ">>
    \o Join([j \in 1..Len(rowsBatch) |->
                generateInsertPartialStatementRow(cols, rowsBatch[j])], <<",\n  ">>)
    \o <<";">>

(* How many elements splice(0, deleteCount) removes from an array of len   *)
SpliceCountOneShort(len, deleteCount) ==
    IF deleteCount - 1 < 0 THEN 0
    ELSE IF deleteCount - 1 > len THEN len ELSE deleteCount - 1

SpliceCount(len, deleteCount) ==
    IF deleteCount < 0 THEN 0
    ELSE IF deleteCount > len THEN len ELSE deleteCount

(* The template of index.ts:138-139: schema block, newline, insert blocks  *)
OutputWithoutSchema(create, inserts) == Join(inserts, <<"\n">>)

Output(create, inserts) == create \o <<"\n">> \o Join(inserts, <<"\n">>)

(* The while loop cannot be followed for ever: a run of it is cut after    *)
(* MaxIterations statements                                                *)
MaxIterations == (IF MaxRows > MaxRecords THEN MaxRows ELSE MaxRecords) + 1

(* generateSQLStatements is entered (index.ts:147, 126-128) *)
GenCall ==
    /\ mpc = "generating"
    /\ gpc = "idle"
    /\ gpc' = "loop"
    /\ rowsClone' = rows
    /\ statements' = <<>>
    /\ UNCHANGED <<engine, batchSize, ingestVars, mpc, result, written, inferVars>>

(* One iteration of while(rowsClone.length) (index.ts:129-134) *)
LoopBatch ==
    /\ gpc = "loop"
    /\ rowsClone # <<>>
    /\ Len(statements) < MaxIterations
    /\ LET n == SpliceCount(Len(rowsClone), batchSize)
           rowsBatch == SubSeq(rowsClone, 1, n)
       IN  /\ \A j \in 1..n : ~RowThrows(columns, rowsBatch[j])
           /\ rowsClone' = SubSeq(rowsClone, n + 1, Len(rowsClone))
           /\ statements' = Append(statements,
                                   [batch |-> rowsBatch,
                                    text |-> InsertStatement(columns, rowsBatch)])
    /\ UNCHANGED <<engine, batchSize, ingestVars, mpc, gpc, result, written, inferVars>>

(* An iteration whose batch holds a row longer than columns: the TypeError *)
(* leaves the function after the splice and before the push                *)
LoopThrow ==
    /\ gpc = "loop"
    /\ rowsClone # <<>>
    /\ Len(statements) < MaxIterations
    /\ LET n == SpliceCount(Len(rowsClone), batchSize)
           rowsBatch == SubSeq(rowsClone, 1, n)
       IN  /\ \E j \in 1..n : RowThrows(columns, rowsBatch[j])
           /\ rowsClone' = SubSeq(rowsClone, n + 1, Len(rowsClone))
    /\ gpc' = "threw"
    /\ UNCHANGED <<engine, batchSize, ingestVars, mpc, statements, result, written,
                   inferVars>>

(* The loop ends and the text is returned (index.ts:135, 138-139) *)
GenReturn ==
    /\ gpc = "loop"
    /\ rowsClone = <<>>
    /\ gpc' = "returned"
    /\ result' = Output(generateCreateStatement(columns, engine),
                        [k \in 1..Len(statements) |-> statements[k].text])
    /\ UNCHANGED <<engine, batchSize, ingestVars, mpc, rowsClone, statements, written,
                   inferVars>>

----------------------------------------------------------------------------
(* Ingestion (index.ts:26-93) and the driver (index.ts:142-154) *)

FieldNames == {"a", "b"}
IngestValues == {StrV(<<"1">>), StrV(<<"a">>)}
Properties == [k : FieldNames, v : IngestValues]

(* The objects a 'data' event may carry *)
Records ==
    {r \in UNION {[1..n -> Properties] : n \in 0..Cardinality(FieldNames)} :
        \A i, j \in 1..Len(r) : i # j => r[i].k # r[j].k}

(* typeof row === 'object': every record of the parser is an object *)
IsObject(row) == row \in Records

(* columns.length === 0: the column list has not been computed yet *)
ColumnsUnset(cols) == Len(cols) = 0

(* handleRow (index.ts:74-81) as called by the 'data' listener (index.ts:85) *)
Data ==
    /\ stream = "flowing"
    /\ mpc = "awaiting"
    /\ Len(delivered) < MaxRecords
    /\ \E row \in Records :
        /\ delivered' = Append(delivered, row)
        /\ IF IsObject(row)
           THEN /\ columns' = IF ColumnsUnset(columns)
                              THEN parseColumns(row, engine)
                              ELSE columns
                /\ rows' = Append(rows, RowOf(row))
           ELSE UNCHANGED <<rows, columns>>
    /\ UNCHANGED <<engine, batchSize, stream, promise, mpc, genVars, written, inferVars>>

(* The 'end' listener (index.ts:86-91) resolves the promise *)
End ==
    /\ stream = "flowing"
    /\ mpc = "awaiting"
    /\ stream' = "ended"
    /\ promise' = "resolved"
    /\ UNCHANGED <<engine, batchSize, delivered, rows, columns, mpc, genVars, written,
                   inferVars>>

(* The read stream or the parser emits 'error'.  No 'error' listener is    *)
(* registered (index.ts:83-92) and reject is never called, so the event    *)
(* is an uncaught exception: the process ends, the promise still pending.  *)
StreamError ==
    /\ stream = "flowing"
    /\ mpc = "awaiting"
    /\ stream' = "errored"
    /\ mpc' = "crashed"
    /\ UNCHANGED <<engine, batchSize, delivered, rows, columns, promise, genVars,
                   written, inferVars>>

(* await parseCSV(...) completes (index.ts:143-144) *)
MainResumeWithoutAwait ==
    /\ mpc = "awaiting"
    /\ mpc' = "generating"
    /\ UNCHANGED <<engine, batchSize, ingestVars, genVars, written, inferVars>>

MainResume ==
    /\ mpc = "awaiting"
    /\ promise = "resolved"
    /\ mpc' = "generating"
    /\ UNCHANGED <<engine, batchSize, ingestVars, genVars, written, inferVars>>

(* fs.writeFileSync(sqlFile, statements) (index.ts:148-151) *)
MainWrite ==
    /\ mpc = "generating"
    /\ gpc = "returned"
    /\ written' = Append(written, result)
    /\ mpc' = "done"
    /\ UNCHANGED <<engine, batchSize, ingestVars, genVars, inferVars>>

(* The TypeError of generateSQLStatements leaves main: nothing is written  *)
MainFail ==
    /\ mpc = "generating"
    /\ gpc = "threw"
    /\ mpc' = "crashed"
    /\ UNCHANGED <<engine, batchSize, ingestVars, genVars, written, inferVars>>

(* batchSize: number.  The one call of main passes INSERT_STATEMENT_BATCH_SIZE *)
BatchSizes == {-1, 0} \cup (1..MaxBatch) \cup {INSERT_STATEMENT_BATCH_SIZE}
MainBatchSizes == {0, 1, 2, INSERT_STATEMENT_BATCH_SIZE}

(* main(...) has called parseCSV, which has wired the stream (index.ts:154) *)
Init ==
    /\ engine \in EngineType
    /\ batchSize \in MainBatchSizes
    /\ stream = "flowing"
    /\ delivered = <<>>
    /\ rows = <<>>
    /\ columns = <<>>
    /\ promise = "pending"
    /\ mpc = "awaiting"
    /\ gpc = "idle"
    /\ rowsClone = <<>>
    /\ statements = <<>>
    /\ result = <<>>
    /\ written = <<>>
    /\ val = StrV(<<>>)
    /\ inferred = "none"

Next ==
    \/ Data
    \/ End
    \/ StreamError
    \/ MainResume
    \/ GenCall
    \/ LoopBatch
    \/ LoopThrow
    \/ GenReturn
    \/ MainWrite
    \/ MainFail

Spec == Init /\ [][Next]_vars

----------------------------------------------------------------------------
(* generateSQLStatements as a function of its parameters: the rows and      *)
(* columns are any typed arrays, not only those parseCSV builds             *)

TextCell == StrV(<<"a", "'">>)
NumberCell == NumV(10)
GenRows == {<<>>, <<TextCell>>, <<NumberCell>>, <<TextCell, NumberCell>>,
            <<NumberCell, TextCell>>}

Col(name, type) == [column |-> name, dataType |-> type, parameters |-> "NULL"]
GenColumns == {<<>>, <<Col("a", "TEXT")>>, <<Col("a", "INT")>>,
               <<Col("a", "TEXT"), Col("b", "INT")>>,
               <<Col("a", "INT"), Col("b", "TEXT")>>}

InitGen ==
    /\ engine \in EngineType
    /\ batchSize \in BatchSizes
    /\ rows \in UNION {[1..n -> GenRows] : n \in 0..MaxRows}
    /\ columns \in GenColumns
    /\ stream = "ended"
    /\ delivered = <<>>
    /\ promise = "resolved"
    /\ mpc = "generating"
    /\ gpc = "idle"
    /\ rowsClone = <<>>
    /\ statements = <<>>
    /\ result = <<>>
    /\ written = <<>>
    /\ val = StrV(<<>>)
    /\ inferred = "none"

NextGen ==
    \/ GenCall
    \/ LoopBatch
    \/ LoopThrow
    \/ GenReturn

SpecGen == InitGen /\ [][NextGen]_vars

----------------------------------------------------------------------------
(* parseSQLDataType as a function of its parameters *)

Alphabet == {"0", "1", ".", "-", " ", "a"}
SampleStrings == {<<"1", "2", "a", "b", "c">>, <<"3", ".", "1", "4">>,
                  <<"A", "l", "i", "c", "e">>, <<"t", "r", "u", "e">>}
Strings == UNION {[1..n -> Alphabet] : n \in 0..MaxStrLen} \cup SampleStrings

InferValues ==
    {StrV(s) : s \in Strings}
    \cup {NumV(n) : n \in (0 - MaxNum)..MaxNum}
    \cup {BoolV(b) : b \in BOOLEAN}

InitInfer ==
    /\ engine \in EngineType
    /\ val \in InferValues
    /\ inferred = "none"
    /\ batchSize = INSERT_STATEMENT_BATCH_SIZE
    /\ stream = "flowing"
    /\ delivered = <<>>
    /\ rows = <<>>
    /\ columns = <<>>
    /\ promise = "pending"
    /\ mpc = "awaiting"
    /\ gpc = "idle"
    /\ rowsClone = <<>>
    /\ statements = <<>>
    /\ result = <<>>
    /\ written = <<>>

(* dataType: parseSQLDataType(row[column], engineType) (index.ts:67) *)
Infer ==
    /\ inferred = "none"
    /\ inferred' = parseSQLDataType(val, engine)
    /\ UNCHANGED <<engine, batchSize, ingestVars, mpc, genVars, written, val>>

NextInfer == Infer

SpecInfer == InitInfer /\ [][NextInfer]_vars

----------------------------------------------------------------------------
(* Properties *)

CeilDiv(n, b) == (n + b - 1) \div b

RECURSIVE Flatten(_)
Flatten(ss) == IF ss = <<>> THEN <<>> ELSE Head(ss) \o Flatten(Tail(ss))

CountToken(text, tok) == Cardinality({i \in 1..Len(text) : text[i] = tok})

Batches == [k \in 1..Len(statements) |-> statements[k].batch]

(* C1: for N rows and a batch size B >= 1, generateInsertStatements emits   *)
(* exactly ceil(N / B) INSERT statements, each holding at most B row        *)
(* tuples and every one but the last exactly B, and the batches read in     *)
(* emission order are the input rows, none dropped, duplicated or moved.    *)
C1_Batching ==
    (gpc = "returned" /\ batchSize >= 1) =>
        /\ Len(statements) = CeilDiv(Len(rows), batchSize)
        /\ \A k \in 1..Len(statements) :
            /\ Len(statements[k].batch) <= batchSize
            /\ (k < Len(statements) => Len(statements[k].batch) = batchSize)
            /\ CountToken(statements[k].text, "(") = Len(statements[k].batch)
        /\ Flatten(Batches) = rows
        /\ CountToken(result, "INSERT INTO ") = CeilDiv(Len(rows), batchSize)

C1_Witness ==
    /\ gpc = "returned"
    /\ batchSize = 2
    /\ Len(rows) = 3
    /\ rows[1] # rows[2]
    /\ Len(statements) = 2

(* C2: every row stored in rows is as long as columns. *)
C2_RowLength == \A i \in 1..Len(rows) : Len(rows[i]) = Len(columns)

(* C3: once a record has been handled, columns is the list computed from    *)
(* the first record, whatever the later records are.                        *)
C3_ColumnsFromFirstRecord ==
    delivered # <<>> => columns = parseColumns(delivered[1], engine)

Letters == {"a", "b", "c", "A", "l", "i", "e", "t", "r", "u"}

(* C4: parseSQLDataType returns TEXT for the empty string and for every     *)
(* string holding a character that is no part of a number.                  *)
C4_TextForNonNumeric ==
    (/\ inferred # "none"
     /\ val.t = "string"
     /\ \/ val.s = <<>>
        \/ \E i \in 1..Len(val.s) : val.s[i] \in Letters)
    => inferred = "TEXT"

(* The text a cell must have by the rule of the data type of its column *)
ExpectedCell(dataType, cell) ==
    IF dataType = "TEXT"
    THEN <<"'">> \o CellToString(cell) \o <<"'">>
    ELSE CellToString(cell)

ExpectedRow(cols, row) ==
    <<"(">> \o Join([i \in 1..Len(row) |-> ExpectedCell(cols[i].dataType, row[i])], <<",">>)
    \o <<")">>

ExpectedInsert(cols, batch) ==
    <<"INSERT INTO ", TABLE_NAME, " VALUES\n  ">>
    \o Join([j \in 1..Len(batch) |-> ExpectedRow(cols, batch[j])], <<",\n  ">>)
    \o <<";">>

(* C5: in every emitted INSERT statement a cell at index i is its raw value *)
(* in single quotes, unescaped, exactly when columns[i].dataType is TEXT,   *)
(* and its raw value unquoted otherwise, whatever the cell's own type.      *)
C5_QuotingByColumnType ==
    \A k \in 1..Len(statements) :
        statements[k].text = ExpectedInsert(columns, statements[k].batch)

C5_Witness ==
    /\ gpc = "returned"
    /\ \E k \in 1..Len(statements) : \E j \in 1..Len(statements[k].batch) :
        LET row == statements[k].batch[j]
        IN  /\ Len(row) = 2
            /\ row[1].t = "number" /\ columns[1].dataType = "TEXT"
            /\ row[2].t = "string" /\ columns[2].dataType = "INT"

(* C6: when the stream has emitted an error, the promise of parseCSV is     *)
(* rejected, and main neither generates statements nor writes the file.     *)
C6_ErrorRejects ==
    stream = "errored" => (promise = "rejected" /\ gpc = "idle" /\ written = <<>>)

(* C7: generateSQLStatements never fails, and every iteration of its loop   *)
(* shortens rowsClone, so that the loop ends and the call returns.          *)
C7_Total ==
    [][/\ gpc' # "threw"
       /\ (gpc = "loop" /\ gpc' = "loop") => Len(rowsClone') < Len(rowsClone)]_vars

(* C8: the promise resolves only once the stream has ended, with every      *)
(* record handled, in arrival order; generateSQLStatements runs only after  *)
(* the promise has resolved; the file is written once, with the returned    *)
(* text, only after generateSQLStatements has returned.                     *)
C8_PhasesOrdered ==
    /\ promise = "resolved" =>
        /\ stream = "ended"
        /\ rows = [i \in 1..Len(delivered) |-> RowOf(delivered[i])]
    /\ (gpc # "idle" \/ mpc \in {"generating", "done"}) => promise = "resolved"
    /\ Len(written) <= 1
    /\ written # <<>> => (gpc = "returned" /\ mpc = "done" /\ written[1] = result)
    /\ mpc = "done" => Len(written) = 1

C8_Witness ==
    /\ mpc = "done"
    /\ Len(delivered) >= 2
    /\ delivered[1] # delivered[2]
    /\ Len(written) = 1

SchemaTokens == {"\";\nCREATE TABLE IF NOT EXISTS \"", ";\nCREATE TABLE IF NOT EXISTS "}
CountSchemas(text) == Cardinality({i \in 1..Len(text) : text[i] \in SchemaTokens})

(* C9 as stated: with B > N the returned output holds exactly one INSERT    *)
(* statement, with all N rows, and every output holds one schema block      *)
(* followed by one or more INSERT blocks.                                   *)
C9_OneOrMoreInserts ==
    gpc = "returned" =>
        /\ CountSchemas(result) = 1
        /\ CountToken(result, "INSERT INTO ") >= 1
        /\ batchSize > Len(rows) =>
            /\ CountToken(result, "INSERT INTO ") = 1
            /\ Batches = <<rows>>

(* C9 amended: with B > N and N >= 1 the returned output holds exactly one  *)
(* INSERT statement, with all N rows; with N = 0 it holds none; every       *)
(* returned output is one schema block followed by zero or more INSERT      *)
(* blocks, one for each statement.                                          *)
C9_ZeroOrMoreInserts ==
    gpc = "returned" =>
        LET create == generateCreateStatement(columns, engine)
        IN  /\ CountSchemas(result) = 1
            /\ Len(result) > Len(create)
            /\ SubSeq(result, 1, Len(create) + 1) = create \o <<"\n">>
            /\ CountSchemas(create) = 1
            /\ CountToken(create, "INSERT INTO ") = 0
            /\ CountToken(result, "INSERT INTO ") = Len(statements)
            /\ (Len(rows) = 0 => Len(statements) = 0)
            /\ (batchSize > Len(rows) /\ Len(rows) >= 1) =>
                /\ CountToken(result, "INSERT INTO ") = 1
                /\ Batches = <<rows>>

C9_Witness ==
    /\ gpc = "returned"
    /\ Len(rows) = 2
    /\ batchSize = 3
    /\ Len(statements) = 1

IsIntegerLiteral(v) ==
    \/ v.t = "number" /\ v.n % 10 = 0
    \/ v.t = "string" /\ v.s # <<>> /\ AllDigits(v.s)

(* C10: for a boolean parseSQLDataType returns BOOLEAN under postgresql and *)
(* BIT under mysql; for an integer numeric literal INT under both.          *)
C10_BooleanAndInteger ==
    inferred # "none" =>
        /\ val.t = "boolean" =>
            inferred = (IF engine = "postgresql" THEN "BOOLEAN" ELSE "BIT")
        /\ IsIntegerLiteral(val) => inferred = "INT"

C10_Witness == inferred = "BIT" /\ val.t = "boolean" /\ engine = "mysql"

====
